---- MODULE Spec2Model ----
(***************************************************************************)
(* Model of mozaggregator/db.py: the PostgreSQL functions installed by     *)
(* _preparedb (aggregate_arrays, aggregate_histograms, add_buildid_metric, *)
(* was_buildid_processed, get_buildid_metric) and the Python writers       *)
(* _upsert_aggregates / _upsert_aggregate that call them, each writer in   *)
(* its own READ COMMITTED transaction.                                     *)
(*                                                                         *)
(* Text values (channel, version, build id, metric names, labels) are      *)
(* sequences of one-character strings, so that concatenation, prefix tests *)
(* and character replacement are computed as the code computes them.       *)
(***************************************************************************)
EXTENDS Integers, Sequences, FiniteSets, Bags, TLC

VARIABLES
    jobs,       \* the calls (batch, dry_run) the fan-out stage may make
    ledger,     \* committed rows of buildid_update_dates (tablename, submission_dates)
    tables,     \* names of the committed partition tables
    rows,       \* committed rows of the partition tables (tab, id, dimensions, histogram)
    nextid,     \* the serial sequence feeding the id column
    pc,         \* per writer: position inside _upsert_aggregates
    job,        \* per writer: the batch it was handed and its dry_run flag
    idx,        \* per writer: index of the next (dimensions, payload) item of the batch
    pend,       \* per writer: uncommitted writes of its open transaction
    err,        \* per writer: the error that ended its last run, "" if none
    runs,       \* number of _upsert_aggregates calls started so far
    merges,     \* history: bag of batches whose transaction committed after the ledger check
    va, vb, vc, \* operands of the accumulator under test
    res,        \* results of the accumulator under test, <<>> before it ran
    qdims,      \* the dimensions a reader passes to get_buildid_metric
    qout,       \* <<what get_buildid_metric returned>>, <<>> before it ran
    hin,        \* the arguments of a call of _get_complete_histogram
    hout,       \* <<the revision it used and what it returned>>, <<>> before it ran
    cache,      \* the probe definitions fetched so far: pairs <<name, source>>
    fetches,    \* the number of fetches from the probe registry so far
    sres        \* the last operation on scalars and its outcome

vars == <<jobs, ledger, tables, rows, nextid, pc, job, idx, pend, err, runs,
          merges, va, vb, vc, res, qdims, qout, hin, hout, cache, fetches, sres>>
storeVars == <<ledger, tables, rows>>
writerVars == <<pc, job, idx, pend, err, runs, merges>>
scalarVars == <<cache, fetches, sres>>
aggVars == <<va, vb, vc, res, qdims, qout, hin, hout, scalarVars>>

-----------------------------------------------------------------------------
(* Bounds *)

\* number of concurrent writers (coordinators)
NumWriters == 2
\* number of _upsert_aggregates calls in one behaviour
MaxRuns == 3
\* longest vector given to the accumulator under test
MaxLen == 2
\* largest element of a vector given to the accumulator under test
MaxVal == 1

Writers == 1..NumWriters

-----------------------------------------------------------------------------
(* aggregate_arrays and aggregate_histograms *)

\* The result of evaluating a SQL expression: a value, or a raised error.
Value(v) == [ok |-> TRUE, val |-> v]
Raised == [ok |-> FALSE, val |-> <<>>]

\* array_length(x, 1) is NULL for an array without elements.
ArrayLengthIsNull(x) == Len(x) = 0

\* coalesce(acc[i], 0): reading past the end of an array yields NULL.
Coalesce(acc, i) == IF i \in 1..Len(acc) THEN acc[i] ELSE 0

\* acc[i] := v, which appends when i is one past the end of acc.
AssignElem(acc, i, v) ==
    IF i \in 1..Len(acc) THEN [acc EXCEPT ![i] = v] ELSE Append(acc, v)

\* for i in lo .. hi loop acc[i] := coalesce(acc[i], 0) + x[i]; end loop
RECURSIVE ForLoop(_, _, _, _)
ForLoop(acc, x, i, hi) ==
    IF i > hi THEN acc
    ELSE ForLoop(AssignElem(acc, i, Coalesce(acc, i) + x[i]), x, i + 1, hi)

\* Faulty variant of LoopUpper: the loop runs over the accumulator's positions.
LoopUpperOverAcc(acc, x) == Len(acc)

\* The upper bound of the loop: array_length(x, 1).
LoopUpper(acc, x) == Len(x)

\* aggregate_arrays(acc, x). A NULL upper bound of a FOR loop is a run-time
\* error of PL/pgSQL ("upper bound of FOR loop cannot be null").
aggregate_arrays(acc, x) ==
    IF ArrayLengthIsNull(x) THEN Raised
    ELSE Value(ForLoop(acc, x, 1, LoopUpper(acc, x)))

\* The aggregate aggregate_histograms over the values vs, in that order:
\* sfunc = aggregate_arrays, initcond = '{}'.
RECURSIVE AggFrom(_, _)
AggFrom(state, vs) ==
    IF vs = <<>> \/ ~state.ok THEN state
    ELSE AggFrom(aggregate_arrays(state.val, Head(vs)), Tail(vs))

aggregate_histograms(vs) == AggFrom(Value(<<>>), vs)

\* The positional sum with missing positions counted as zero (the reference
\* the accumulator is compared with).
PadSum(x, y) ==
    [i \in 1..(IF Len(x) > Len(y) THEN Len(x) ELSE Len(y)) |->
        Coalesce(x, i) + Coalesce(y, i)]

-----------------------------------------------------------------------------
(* Text, partition names, dimensions *)

\* channel || '_' || version || '_' || buildid
TableName(channel, version, buildid) ==
    channel \o <<"_">> \o version \o <<"_">> \o buildid

\* The name under which a batch's partition and ledger entry are kept.
NameOf(bt) == TableName(bt.channel, bt.version, bt.build_id)

\* label.replace("'", "")
StripQuotes(label) == SelectSeq(label, LAMBDA ch : ch # "'")

\* metric.startswith(prefix)
StartsWith(s, prefix) ==
    Len(s) >= Len(prefix) /\ SubSeq(s, 1, Len(prefix)) = prefix

SimplePrefix == <<"S", "I", "M", "P", "L", "E", "_">>

\* The characters an unquoted SQL identifier is made of. A table name is
\* spliced into the text of the statements that add_buildid_metric executes;
\* a name with any other character does not parse as one identifier.
IdentChars ==
    {"a", "n", "r", "0", "1", "2", "3", "4", "5", "6", "7", "8", "9", "_"}
IsIdentifier(name) == \A i \in 1..Len(name) : name[i] \in IdentChars

\* Faulty variant of Contains: the containment read the other way round,
\* left <@ right.
ContainedIn(left, right) ==
    \A k \in DOMAIN left : k \in DOMAIN right /\ left[k] = right[k]

\* jsonb containment  left @> right  of two objects with scalar members.
Contains(left, right) ==
    \A k \in DOMAIN right : k \in DOMAIN left /\ left[k] = right[k]

-----------------------------------------------------------------------------
(* _get_complete_histogram *)

\* int(v) of a payload number; int() raises ValueError on a NaN.
Convertible(tok) == tok \in {"0", "1", "2"}
IntOf(tok) == CASE tok = "0" -> 0 [] tok = "1" -> 1 [] tok = "2" -> 2

\* The histogram definitions the Histogram class looks a metric up in:
\* metric name -> number of buckets. A name it does not hold is a KeyError.
GC == <<"G", "C">>
HistogramDefinitions == [m \in {GC} |-> 3]

\* Histogram(metric, {"values": values}).get_value(autocast=False).values:
\* the compact representation (pairs bucket, count) laid out over all buckets.
HistogramValues(metric, values) ==
    [i \in 1..HistogramDefinitions[metric] |->
        IF \E j \in 1..Len(values) : values[j][1] = i
        THEN (CHOOSE v \in {values[j] : j \in 1..Len(values)} : v[1] = i)[2]
        ELSE "0"]

\* The channels of _revision_map and the locator each one maps to.
Nightly == <<"n">>
Aurora == <<"a">>
Beta == <<"b">>
Release == <<"r">>
revision_map ==
    [c \in {Nightly, Aurora, Beta, Release} |->
        CASE c = Nightly -> <<"https://hg.mozilla.org/mozilla-central/rev/tip">>
          [] c = Aurora  -> <<"https://hg.mozilla.org/releases/mozilla-aurora/rev/tip">>
          [] c = Beta    -> <<"https://hg.mozilla.org/releases/mozilla-beta/rev/tip">>
          [] c = Release -> <<"https://hg.mozilla.org/releases/mozilla-release/rev/tip">>]

\* _revision_map.get(channel, "nightly"): the value under the key, or the
\* second argument as it stands when the map has no such key.
Revision(channel) ==
    IF channel \in DOMAIN revision_map THEN revision_map[channel] ELSE Nightly

\* The revision a call of _get_complete_histogram hands to Histogram(...),
\* <<>> when it constructs none (a SIMPLE_ metric).
RevisionUsed(channel, metric) ==
    IF StartsWith(metric, SimplePrefix) THEN <<>> ELSE <<Revision(channel)>>

\* _get_complete_histogram(channel, metric, values): the list of ints, or
\* the exception raised.
GetCompleteHistogram(channel, metric, values) ==
    LET known == StartsWith(metric, SimplePrefix) \/ metric \in DOMAIN HistogramDefinitions
        histogram == IF StartsWith(metric, SimplePrefix) THEN values
                     ELSE HistogramValues(metric, values)
    IN  IF ~known THEN [exc |-> "KeyError", val |-> <<>>]
        ELSE IF \E i \in 1..Len(histogram) : ~Convertible(histogram[i])
             THEN [exc |-> "ValueError", val |-> <<>>]
             ELSE [exc |-> "", val |-> [i \in 1..Len(histogram) |-> IntOf(histogram[i])]]

\* The (aggregate key, metric, payload) items of a batch in the order the
\* nested loops of _upsert_aggregates and _upsert_aggregate visit them.
RECURSIVE Items(_)
Items(aggs) ==
    IF aggs = <<>> THEN <<>>
    ELSE [i \in 1..Len(Head(aggs).metrics) |->
             [key |-> Head(aggs).key, m |-> Head(aggs).metrics[i]]]
         \o Items(Tail(aggs))

\* The dimensions dictionary _upsert_aggregate builds for one item.
Dimensions(it) ==
    [application  |-> it.key.application,
     architecture |-> it.key.architecture,
     revision     |-> it.key.revision,
     os           |-> it.key.os,
     os_version   |-> it.key.os_version,
     metric       |-> it.m.metric,
     label        |-> StripQuotes(it.m.label),
     child        |-> it.m.child]

\* The try block of _upsert_aggregate: the expanded histogram with the count
\* appended at the end, or the exception raised.
CompleteWithCount(channel, it) ==
    LET h == GetCompleteHistogram(channel, it.m.metric, it.m.histogram)
    IN  IF h.exc = "" THEN [exc |-> "", val |-> Append(h.val, it.m.count)] ELSE h

-----------------------------------------------------------------------------
(* The store as one transaction sees it *)

NoWrites == [ledger |-> {}, created |-> {}, rows |-> {}]

\* A table with the rows of `over` replacing the rows of `base` with the same key.
OverlayLedger(base, over) ==
    {t \in base : \A u \in over : u.tablename # t.tablename} \cup over
OverlayRows(base, over) ==
    {r \in base : \A u \in over : u.id # r.id} \cup over

\* What a statement of writer w reads: the committed rows and w's own writes.
VisibleLedger(w) == OverlayLedger(ledger, pend[w].ledger)
VisibleTables(w) == tables \cup pend[w].created
VisibleRows(w) == OverlayRows(rows, pend[w].rows)

\* Another open transaction holds an uncommitted version of the ledger row
\* (an update's row lock, or an insert's entry in the primary key index).
LedgerRowHeld(w, name) ==
    \E o \in Writers \ {w} : \E t \in pend[o].ledger : t.tablename = name
\* Another open transaction is creating the table.
TableHeld(w, name) ==
    \E o \in Writers \ {w} : name \in pend[o].created
\* Another open transaction holds an uncommitted version of the row.
RowHeld(w, r) ==
    \E o \in Writers \ {w} : \E u \in pend[o].rows : u.id = r.id

\* Faulty variant of UpsertAutocommit: the connection is opened with
\* create_connection()'s default, autocommit=True.
UpsertAutocommitDefault == TRUE

\* _upsert_aggregates opens its connection with autocommit=False: its
\* statements run in one transaction that ends at commit() or rollback().
UpsertAutocommit == FALSE

\* Writer w has executed a statement that leaves p as its transaction's
\* writes. On an autocommit connection every statement commits at once.
Stage(w, p) ==
    IF UpsertAutocommit
    THEN /\ ledger' = OverlayLedger(ledger, p.ledger)
         /\ tables' = tables \cup p.created
         /\ rows' = OverlayRows(rows, p.rows)
         /\ pend' = [pend EXCEPT ![w] = NoWrites]
    ELSE /\ pend' = [pend EXCEPT ![w] = p]
         /\ UNCHANGED storeVars

\* The transaction of w ends without commit: an exception leaves
\* _upsert_aggregates and the connection is dropped, or rollback() is called.
RolledBack(w, outcome, error) ==
    /\ pc' = [pc EXCEPT ![w] = outcome]
    /\ err' = [err EXCEPT ![w] = error]
    /\ pend' = [pend EXCEPT ![w] = NoWrites]
    /\ UNCHANGED storeVars

-----------------------------------------------------------------------------
(* was_buildid_processed *)

\* Faulty variant of DateRecorded: only the first recorded date is compared.
DateRecordedFirstOnly(led, name, date) ==
    \E t \in led : /\ t.tablename = name
                   /\ Len(t.submission_dates) > 0
                   /\ t.submission_dates[1] = date

\* exists(select 1 from buildid_update_dates as t
\*        where t.tablename = table_name and submission_date = any(t.submission_dates))
DateRecorded(led, name, date) ==
    \E t \in led : /\ t.tablename = name
                   /\ \E i \in 1..Len(t.submission_dates) : t.submission_dates[i] = date

\* update buildid_update_dates set submission_dates = submission_dates || submission_date
\* where tablename = table_name returning *
LedgerUpdate(led, name, date) ==
    {[t EXCEPT !.submission_dates = Append(@, date)] : t \in {u \in led : u.tablename = name}}

\* Faulty variant of LedgerInsert: the row is inserted with no date.
LedgerInsertNoDate(name, date) == {[tablename |-> name, submission_dates |-> <<>>]}

\* insert into buildid_update_dates select * from (values (table_name, array[submission_date]))
LedgerInsert(name, date) == {[tablename |-> name, submission_dates |-> <<date>>]}

-----------------------------------------------------------------------------
(* add_buildid_metric *)

\* The rows the update of the upsert statement touches.
UpsertTargets(visible, name, dims) ==
    {r \in visible : r.tab = name /\ Contains(r.dimensions, dims)}

\* set histogram = (select aggregate_histograms(v) from (values (1, t.histogram), (2, $1)) as t (k, v))
Accumulated(r, hist) == aggregate_histograms(<<r.histogram, hist>>)

\* Faulty variant of UpsertInsert: the insert lacks
\* "where not exists (select 1 from upsert)".
UpsertInsertAlways(targets, name, dims, hist, id) ==
    {[tab |-> name, id |-> id, dimensions |-> dims, histogram |-> hist]}

\* insert into tablename (dimensions, histogram) select * from (values ($2, $1)) as t
\* where not exists (select 1 from upsert)
UpsertInsert(targets, name, dims, hist, id) ==
    IF targets = {}
    THEN {[tab |-> name, id |-> id, dimensions |-> dims, histogram |-> hist]}
    ELSE {}

\* The row versions the whole upsert statement writes.
UpsertWrites(visible, name, dims, hist, id) ==
    LET targets == UpsertTargets(visible, name, dims)
    IN  {[r EXCEPT !.histogram = Accumulated(r, hist).val] : r \in targets}
        \cup UpsertInsert(targets, name, dims, hist, id)

-----------------------------------------------------------------------------
(* _upsert_aggregates, one action per statement it sends to the store *)

Resting == {"idle", "already", "committed", "rolledback", "failed", "aborted"}
InFlight == {"check", "ledger", "ledger_wait", "items", "create", "upsert"}

Batch(w) == job[w].batch
Name(w) == NameOf(Batch(w))
ItemsOf(w) == Items(Batch(w).aggs)
Item(w) == ItemsOf(w)[idx[w]]

\* _upsert_aggregates(aggregates, dry_run) is called: a connection is opened
\* and the batch key is unpacked.
Begin(w) ==
    /\ pc[w] \in Resting
    /\ runs < MaxRuns
    /\ \E j \in jobs : job' = [job EXCEPT ![w] = j]
    /\ pc' = [pc EXCEPT ![w] = "check"]
    /\ idx' = [idx EXCEPT ![w] = 1]
    /\ err' = [err EXCEPT ![w] = ""]
    /\ runs' = runs + 1
    /\ UNCHANGED <<jobs, storeVars, nextid, pend, merges, aggVars>>

\* was_buildid_processed, first statement: the select. When the date is
\* found the function returns true and _upsert_aggregates returns.
WasProcessedSelect(w) ==
    /\ pc[w] = "check"
    /\ pc' = [pc EXCEPT ![w] =
                IF DateRecorded(VisibleLedger(w), Name(w), Batch(w).date)
                THEN "already" ELSE "ledger"]
    /\ UNCHANGED <<jobs, storeVars, nextid, job, idx, pend, err, runs, merges, aggVars>>

\* was_buildid_processed, second statement: update the ledger row, insert it
\* when the update found none. The update waits for the row's lock; the
\* insert waits for an uncommitted row with the same primary key.
LedgerUpsert(w) ==
    /\ pc[w] = "ledger"
    /\ LET updated == LedgerUpdate(VisibleLedger(w), Name(w), Batch(w).date)
       IN  IF updated # {}
           THEN /\ ~LedgerRowHeld(w, Name(w))
                /\ Stage(w, [pend[w] EXCEPT !.ledger = updated])
                /\ pc' = [pc EXCEPT ![w] = "items"]
           ELSE IF LedgerRowHeld(w, Name(w))
           THEN /\ pc' = [pc EXCEPT ![w] = "ledger_wait"]
                /\ UNCHANGED <<storeVars, pend>>
           ELSE /\ Stage(w, [pend[w] EXCEPT !.ledger = LedgerInsert(Name(w), Batch(w).date)])
                /\ pc' = [pc EXCEPT ![w] = "items"]
    /\ UNCHANGED <<jobs, nextid, job, idx, err, runs, merges, aggVars>>

\* The transaction the insert waited for has ended: when it committed, the
\* insert violates the primary key of buildid_update_dates; when it rolled
\* back, the insert goes through.
LedgerInsertResume(w) ==
    /\ pc[w] = "ledger_wait"
    /\ ~LedgerRowHeld(w, Name(w))
    /\ IF \E t \in ledger : t.tablename = Name(w)
       THEN RolledBack(w, "failed", "unique_violation")
       ELSE /\ Stage(w, [pend[w] EXCEPT !.ledger = LedgerInsert(Name(w), Batch(w).date)])
            /\ pc' = [pc EXCEPT ![w] = "items"]
            /\ UNCHANGED err
    /\ UNCHANGED <<jobs, nextid, job, idx, runs, merges, aggVars>>

\* _upsert_aggregate: building the histogram of the next item raises. A
\* KeyError is caught and the loop continues; any other exception leaves
\* _upsert_aggregates before commit().
ExpandRaises(w) ==
    /\ pc[w] = "items"
    /\ idx[w] <= Len(ItemsOf(w))
    /\ LET h == CompleteWithCount(Batch(w).channel, Item(w))
       IN  /\ h.exc # ""
           /\ IF h.exc = "KeyError"
              THEN /\ idx' = [idx EXCEPT ![w] = @ + 1]
                   /\ UNCHANGED <<storeVars, pc, pend, err>>
              ELSE /\ RolledBack(w, "failed", h.exc)
                   /\ UNCHANGED idx
    /\ UNCHANGED <<jobs, nextid, job, runs, merges, aggVars>>

\* add_buildid_metric, first statement: does the table exist?
AddCheckTable(w) ==
    /\ pc[w] = "items"
    /\ idx[w] <= Len(ItemsOf(w))
    /\ CompleteWithCount(Batch(w).channel, Item(w)).exc = ""
    /\ pc' = [pc EXCEPT ![w] = IF Name(w) \in VisibleTables(w) THEN "upsert" ELSE "create"]
    /\ UNCHANGED <<jobs, storeVars, nextid, job, idx, pend, err, runs, merges, aggVars>>

\* add_buildid_metric: execute 'create table ' || tablename || ... and the
\* create index. A name that is no identifier is a syntax error; a table
\* created meanwhile is an error too; an uncommitted one is waited for.
AddCreateTable(w) ==
    /\ pc[w] = "create"
    /\ IF ~IsIdentifier(Name(w))
       THEN RolledBack(w, "failed", "syntax_error")
       ELSE /\ ~TableHeld(w, Name(w))
            /\ IF Name(w) \in tables
               THEN RolledBack(w, "failed", "duplicate_table")
               ELSE /\ Stage(w, [pend[w] EXCEPT !.created = @ \cup {Name(w)}])
                    /\ pc' = [pc EXCEPT ![w] = "upsert"]
                    /\ UNCHANGED err
    /\ UNCHANGED <<jobs, nextid, job, idx, runs, merges, aggVars>>

\* add_buildid_metric: the upsert statement. Its update waits for the lock
\* of every row it touches; the id of an inserted row comes from the serial.
AddUpsert(w) ==
    /\ pc[w] = "upsert"
    /\ LET dims == Dimensions(Item(w))
           hist == CompleteWithCount(Batch(w).channel, Item(w)).val
           targets == UpsertTargets(VisibleRows(w), Name(w), dims)
           written == UpsertWrites(VisibleRows(w), Name(w), dims, hist, nextid)
       IN  /\ \A r \in targets : ~RowHeld(w, r)
           /\ IF \E r \in targets : ~Accumulated(r, hist).ok
              THEN /\ RolledBack(w, "failed", "for_loop_null_bound")
                   /\ UNCHANGED <<idx, nextid>>
              ELSE /\ Stage(w, [pend[w] EXCEPT !.rows = OverlayRows(@, written)])
                   /\ nextid' = IF \E r \in written : r.id = nextid THEN nextid + 1 ELSE nextid
                   /\ idx' = [idx EXCEPT ![w] = @ + 1]
                   /\ pc' = [pc EXCEPT ![w] = "items"]
                   /\ UNCHANGED err
    /\ UNCHANGED <<jobs, job, runs, merges, aggVars>>

\* Faulty variant of DryRun: the flag is not looked at.
DryRunIgnored(w) == FALSE

\* if dry_run: conn.rollback() else: conn.commit()
DryRun(w) == job[w].dry_run

\* The loops are over: conn.rollback() on a dry run, conn.commit() otherwise.
Finish(w) ==
    /\ pc[w] = "items"
    /\ idx[w] > Len(ItemsOf(w))
    /\ IF DryRun(w)
       THEN /\ RolledBack(w, "rolledback", "")
            /\ UNCHANGED merges
       ELSE /\ ledger' = OverlayLedger(ledger, pend[w].ledger)
            /\ tables' = tables \cup pend[w].created
            /\ rows' = OverlayRows(rows, pend[w].rows)
            /\ pend' = [pend EXCEPT ![w] = NoWrites]
            /\ pc' = [pc EXCEPT ![w] = "committed"]
            /\ merges' = merges (+) SetToBag({Batch(w)})
            /\ UNCHANGED err
    /\ UNCHANGED <<jobs, nextid, job, idx, runs, aggVars>>

\* The writer is cancelled or loses its connection before commit: the store
\* rolls its transaction back.
Abort(w) ==
    /\ pc[w] \in InFlight
    /\ RolledBack(w, "aborted", "cancelled")
    /\ UNCHANGED <<jobs, nextid, job, idx, runs, merges, aggVars>>

-----------------------------------------------------------------------------
(* The batches the writers are given *)

SIMPLE_A == SimplePrefix \o <<"A">>
UNKNOWN == <<"X">>

Key5 == [application |-> "Firefox", architecture |-> "x86", revision |-> "r1",
         os |-> "Linux", os_version |-> "4"]

Metric(name, label, values, count) ==
    [metric |-> name, label |-> label, child |-> FALSE, histogram |-> values, count |-> count]

BatchOf(date, channel, metrics) ==
    [date |-> date, channel |-> channel, version |-> <<"4">>, build_id |-> <<"7">>,
     aggs |-> << [key |-> Key5, metrics |-> metrics] >>]

NoBatch == BatchOf("", <<>>, <<>>)
Call(bt) == [batch |-> bt, dry_run |-> FALSE]

\* Three days of one build: the first day brings one histogram; the second
\* brings a histogram of the registry, a metric the registry does not know,
\* and the first day's histogram again (one bucket shorter, its label quoted);
\* the third brings nothing but a metric the registry does not know.
Day1 == BatchOf("d1", <<"n">>, << Metric(SIMPLE_A, <<>>, <<"1", "0">>, 5) >>)
Day2 == BatchOf("d2", <<"n">>, << Metric(GC, <<>>, << <<2, "1">> >>, 2),
                                  Metric(UNKNOWN, <<>>, <<>>, 1),
                                  Metric(SIMPLE_A, <<"'">>, <<"2">>, 1) >>)
Day3 == BatchOf("d3", <<"n">>, << Metric(UNKNOWN, <<>>, <<>>, 1) >>)
OneBuild == {Call(Day1), Call(Day2), Call(Day3)}

\* Malformed input: a channel with a character that is no part of an
\* identifier, and a histogram with a value int() does not convert.
UnsafeDay == BatchOf("d1", <<"r", ";">>, << Metric(UNKNOWN, <<>>, <<>>, 1),
                                           Metric(SIMPLE_A, <<>>, <<"1">>, 1) >>)
NaNDay == BatchOf("d2", <<"n">>, << Metric(SIMPLE_A, <<>>, <<"1">>, 1),
                                   Metric(SIMPLE_A, <<"a">>, <<"nan">>, 1),
                                   Metric(GC, <<>>, <<>>, 0) >>)
Malformed == {Call(Day1), Call(UnsafeDay), Call(NaNDay)}

-----------------------------------------------------------------------------
(* The specifications *)

InitStore ==
    /\ ledger = {}
    /\ tables = {}
    /\ rows = {}
    /\ nextid = 1
    /\ pc = [w \in Writers |-> "idle"]
    /\ job = [w \in Writers |-> Call(NoBatch)]
    /\ idx = [w \in Writers |-> 1]
    /\ pend = [w \in Writers |-> NoWrites]
    /\ err = [w \in Writers |-> ""]
    /\ runs = 0
    /\ merges = EmptyBag

NoScalars ==
    /\ cache = {}
    /\ fetches = 0
    /\ sres = [op |-> "none"]

NoOperands ==
    /\ va = <<>>
    /\ vb = <<>>
    /\ vc = <<>>
    /\ res = <<>>
    /\ qdims = [metric |-> <<>>]
    /\ qout = <<>>
    /\ hin = [channel |-> <<>>, metric |-> <<>>, values |-> <<>>]
    /\ hout = <<>>
    /\ NoScalars

Init ==
    /\ jobs = OneBuild
    /\ InitStore
    /\ NoOperands

Next ==
    \E w \in Writers :
        \/ Begin(w)
        \/ WasProcessedSelect(w)
        \/ LedgerUpsert(w)
        \/ LedgerInsertResume(w)
        \/ ExpandRaises(w)
        \/ AddCheckTable(w)
        \/ AddCreateTable(w)
        \/ AddUpsert(w)
        \/ Finish(w)
        \/ Abort(w)

Spec == Init /\ [][Next]_vars

InitInputs ==
    /\ jobs = Malformed
    /\ InitStore
    /\ NoOperands

SpecInputs == InitInputs /\ [][Next]_vars

-----------------------------------------------------------------------------
(* get_buildid_metric *)

\* The rows of a set as a sequence, in the order of their ids.
RECURSIVE ById(_)
ById(rs) ==
    IF rs = {} THEN <<>>
    ELSE LET first == CHOOSE r \in rs : \A o \in rs : r.id <= o.id
         IN  <<first>> \o ById(rs \ {first})

HistogramsOf(rs) == [i \in 1..Len(ById(rs)) |-> ById(rs)[i].histogram]

\* get_buildid_metric(channel, version, buildid, dimensions) over the table
\* contents `visible`: one result row per label among the rows that contain
\* the dimensions, its histogram aggregate_histograms over those rows.
GetBuildidMetric(present, visible, name, dims) ==
    IF "metric" \notin DOMAIN dims \/ name \notin present THEN [ok |-> FALSE, val |-> {}]
    ELSE LET matching == {r \in visible : r.tab = name /\ Contains(r.dimensions, dims)}
             group(l) == {r \in matching : r.dimensions.label = l}
         IN  IF \E r \in matching : ~aggregate_histograms(HistogramsOf(group(r.dimensions.label))).ok
             THEN [ok |-> FALSE, val |-> {}]
             ELSE [ok |-> TRUE,
                   val |-> {[label |-> r.dimensions.label,
                             histogram |-> aggregate_histograms(
                                 HistogramsOf(group(r.dimensions.label))).val] :
                            r \in matching}]

-----------------------------------------------------------------------------
(* Claims about the writers *)

\* The number of committed merges of a submission date into a partition.
MergesOf(name, date) ==
    BagCardinality([bt \in {x \in DOMAIN merges : NameOf(x) = name /\ x.date = date}
                       |-> merges[bt]])

\* Writer w leaves the ledger check in this step.
LeavesCheck(w) == pc[w] = "check" /\ pc'[w] \notin {"check", "aborted"}

\* C1: a batch run again after a run of the same batch committed is reported
\* as processed by was_buildid_processed, issues no add_buildid_metric call
\* and leaves the ledger and every aggregate row as they were.
SecondRunIsNoOp ==
    [][\A w \in Writers :
          /\ (LeavesCheck(w) /\ BagIn(Batch(w), merges)) =>
                 /\ pc'[w] = "already"
                 /\ pend'[w] = NoWrites
                 /\ UNCHANGED <<ledger, tables, rows>>
          /\ pc[w] = "already" => pc'[w] \in {"already", "check"}]_vars

\* C1, witness: a writer was told "already processed" for a batch that had
\* been merged once.
SecondRunSeen ==
    \E w \in Writers : /\ pc[w] = "already"
                       /\ CopiesIn(Batch(w), merges) = 1
                       /\ idx[w] = 1

\* C2: of the writers that run concurrently for the same partition and
\* submission date, at most one commits row writes for that date.
AtMostOnceMerge ==
    \A bt \in DOMAIN merges : MergesOf(NameOf(bt), bt.date) <= 1

\* Some writer's transaction commits in this step.
SomeCommit == \E w \in Writers : pc[w] # "committed" /\ pc'[w] = "committed"

\* The rows of partition `name` as committed.
RowsWith(rs, name, dims) == {r \in rs : r.tab = name /\ r.dimensions = dims}

\* C3: the ledger test-and-set and the row writes (and the partition) of a
\* batch become visible together at commit or not at all: the store changes
\* only when a transaction commits, the commit brings the date, the partition
\* and a row for every expanded item at once, a run that fails or is aborted
\* leaves nothing behind, and a batch is reported as processed only when a
\* run of it committed.
BatchAtomicity ==
    [][/\ ~SomeCommit => UNCHANGED <<ledger, tables, rows>>
       /\ \A w \in Writers :
             /\ (pc[w] # "committed" /\ pc'[w] = "committed") =>
                   /\ DateRecorded(ledger', Name(w), Batch(w).date)
                   /\ \A i \in 1..Len(ItemsOf(w)) :
                         CompleteWithCount(Batch(w).channel, ItemsOf(w)[i]).exc = "" =>
                            /\ Name(w) \in tables'
                            /\ RowsWith(rows', Name(w), Dimensions(ItemsOf(w)[i])) # {}
             /\ (pc[w] \in InFlight /\ pc'[w] \in {"failed", "aborted", "rolledback"}) =>
                   pend'[w] = NoWrites
             /\ (pc[w] = "check" /\ pc'[w] = "already") => BagIn(Batch(w), merges)]_vars

\* C3, witness: a writer was aborted after it had written the ledger and a
\* row, and the store holds neither its date nor any partition.
AbortedAfterWrites ==
    \E w \in Writers : /\ pc[w] = "aborted"
                       /\ idx[w] > 1
                       /\ ~DateRecorded(ledger, Name(w), Batch(w).date)
                       /\ tables = {}

\* C4: a partition holds at most one row per dimension set, in every
\* committed state and for every interleaving of writers of one partition.
RowUniqueness ==
    \A r1 \in rows : \A r2 \in rows :
        (r1.tab = r2.tab /\ r1.dimensions = r2.dimensions) => r1 = r2

\* C4, witness: a writer holds an uncommitted write to a dimension set while
\* another writer is in flight for the same partition with another date and
\* the same dimension set, and the first sees that dimension set in one row.
TwoWritersOneRow ==
    \E w \in Writers : \E o \in Writers \ {w} :
        /\ pc[w] \in InFlight /\ pc[o] \in InFlight
        /\ Name(w) = Name(o) /\ Batch(w).date # Batch(o).date
        /\ \E u \in pend[w].rows : \E k \in 1..Len(ItemsOf(o)) :
              /\ u.dimensions = Dimensions(ItemsOf(o)[k])
              /\ Cardinality(RowsWith(VisibleRows(w), Name(w), u.dimensions)) = 1

\* The positional, zero-padded sum of a sequence of vectors.
RECURSIVE SumAll(_)
SumAll(vs) == IF vs = <<>> THEN <<>> ELSE PadSum(Head(vs), SumAll(Tail(vs)))

\* The values batch bt supplies for a dimension set of partition `name`.
Supplied(bt, name, dims) ==
    LET sel == SelectSeq(Items(bt.aggs),
                         LAMBDA it : /\ NameOf(bt) = name
                                     /\ CompleteWithCount(bt.channel, it).exc = ""
                                     /\ Dimensions(it) = dims)
    IN  [i \in 1..Len(sel) |-> CompleteWithCount(bt.channel, sel[i]).val]

RECURSIVE Times(_, _)
Times(vs, n) == IF n = 0 THEN <<>> ELSE vs \o Times(vs, n - 1)

\* The values all merged batches supplied, each as often as it was merged.
RECURSIVE SuppliedBy(_, _, _)
SuppliedBy(bts, name, dims) ==
    IF bts = {} THEN <<>>
    ELSE LET bt == CHOOSE x \in bts : TRUE
         IN  Times(Supplied(bt, name, dims), merges[bt]) \o SuppliedBy(bts \ {bt}, name, dims)

JobNames == {NameOf(j.batch) : j \in jobs}
JobDimensions ==
    UNION {{Dimensions(Items(j.batch.aggs)[i]) : i \in 1..Len(Items(j.batch.aggs))} : j \in jobs}

NoProvisioningFailure ==
    \A w \in Writers : err[w] \notin {"unique_violation", "duplicate_table"}

\* channel, version and build id consist of alphanumerics and underscores.
SafeKey(bt) ==
    IsIdentifier(bt.channel) /\ IsIdentifier(bt.version) /\ IsIdentifier(bt.build_id)

\* C9: a batch whose channel, version or build id has a character outside
\* alphanumerics and underscore is rejected with InvalidPartitionKey before
\* any store access: the writer never gets past the start of its run, writes
\* no ledger entry and creates no partition.
PartitionKeyValidated ==
    \A w \in Writers :
        ~SafeKey(Batch(w)) =>
            /\ \/ pc[w] \in {"check", "aborted"}
               \/ pc[w] = "failed" /\ err[w] = "InvalidPartitionKey"
            /\ pend[w] = NoWrites
            /\ \A t \in ledger : t.tablename # Name(w)

\* The errors the store raises.
StoreErrors == {"unique_violation", "duplicate_table", "syntax_error", "for_loop_null_bound"}

\* C10: a metric whose resolution or expansion fails is skipped and the rest
\* of the batch is written and committed: only an error of the store ends a
\* batch without commit.
MetricFailureIsolated ==
    \A w \in Writers : pc[w] = "failed" => err[w] \in StoreErrors

-----------------------------------------------------------------------------
(* The accumulator on its own: aggregate_arrays applied to bounded vectors *)

Vectors == UNION {[1..n -> 0..MaxVal] : n \in 0..MaxLen}

\* The zero vector of the length of x.
ZeroVector(x) == [i \in 1..Len(x) |-> 0]

\* aggregate_arrays applied to the outcome of an earlier call: an error ends
\* the evaluation.
ThenWith(r, x) == IF r.ok THEN aggregate_arrays(r.val, x) ELSE Raised
WithThen(x, r) == IF r.ok THEN aggregate_arrays(x, r.val) ELSE Raised

InitAgg ==
    /\ jobs = {}
    /\ InitStore
    /\ va \in Vectors
    /\ vb \in Vectors
    /\ vc \in Vectors
    /\ res = <<>>
    /\ qdims = [metric |-> <<>>]
    /\ qout = <<>>
    /\ hin = [channel |-> <<>>, metric |-> <<>>, values |-> <<>>]
    /\ hout = <<>>
    /\ NoScalars

\* select aggregate_arrays(a, b), aggregate_arrays(b, a), ...
Evaluate ==
    /\ res = <<>>
    /\ res' = << aggregate_arrays(va, vb),
                 aggregate_arrays(vb, va),
                 ThenWith(aggregate_arrays(va, vb), vc),
                 WithThen(va, aggregate_arrays(vb, vc)),
                 aggregate_arrays(va, ZeroVector(va)) >>
    /\ UNCHANGED <<jobs, storeVars, nextid, writerVars, va, vb, vc, qdims, qout, hin, hout, scalarVars>>

NextAgg == Evaluate

SpecAgg == InitAgg /\ [][NextAgg]_vars

-----------------------------------------------------------------------------
(* Claims about the accumulator *)

\* C7: aggregate_arrays is commutative and associative and has the zero
\* vector as identity, for all vectors of equal or different lengths:
\* agg(a,b) = agg(b,a), agg(agg(a,b),c) = agg(a,agg(b,c)), agg(a, zeros) = a.
AccumulatorLaws ==
    Len(res) > 0 =>
        /\ res[1] = res[2]
        /\ res[3] = res[4]
        /\ res[5] = Value(va)

\* C8: aggregate_arrays is total and zero-pads: for vectors of any lengths,
\* length 0 included, aggregate_arrays(acc, x) returns without error the
\* positional sum with missing positions counted as 0.
AccumulatorTotal ==
    Len(res) > 0 => res[1] = Value(PadSum(va, vb))

-----------------------------------------------------------------------------
(* The reader: get_buildid_metric over the partitions a build can have *)

\* The most rows of the partition that is read.
MaxRows == 4

QueryName == NameOf(Day1)

\* The dimension sets of the rows: one metric with two labels on two
\* systems, and a second metric.
QueryDimensions ==
    {Dimensions([key |-> [Key5 EXCEPT !.os = k[3]], m |-> Metric(k[1], k[2], <<>>, 0)]) :
        k \in {x \in {SIMPLE_A, GC} \X {<<>>, <<"a">>} \X {"Linux", "Mac"} :
                  x[1] = SIMPLE_A \/ (x[2] = <<>> /\ x[3] = "Linux")}}

\* The values of the rows: histograms of two lengths with their count.
QueryHistograms == {<<1, 5>>, <<2, 0, 1>>}

\* The partitions add_buildid_metric leaves behind: rows numbered by the
\* serial in the order of their insertion, no two with the same dimensions.
Partitions ==
    {{[tab |-> QueryName, id |-> i, dimensions |-> f[i][1], histogram |-> f[i][2]] :
         i \in DOMAIN f} :
     f \in {g \in UNION {[1..n -> QueryDimensions \X QueryHistograms] : n \in 0..MaxRows} :
               \A i \in DOMAIN g : \A j \in DOMAIN g : g[i][1] = g[j][1] => i = j}}

\* The dimensions the reader asks for.
QueryPredicates ==
    {[metric |-> SIMPLE_A], [metric |-> GC],
     [metric |-> SIMPLE_A, label |-> <<>>],
     [metric |-> SIMPLE_A, os |-> "Mac"],
     [label |-> <<>>]}

InitQuery ==
    /\ jobs = {}
    /\ InitStore
    /\ va = <<>>
    /\ vb = <<>>
    /\ vc = <<>>
    /\ res = <<>>
    /\ qdims = [metric |-> <<>>]
    /\ qout = <<>>
    /\ hin = [channel |-> <<>>, metric |-> <<>>, values |-> <<>>]
    /\ hout = <<>>
    /\ NoScalars

\* A committed snapshot of the partition, as other clients left it.
LoadPartition ==
    /\ tables = {}
    /\ qout = <<>>
    /\ tables' = {QueryName}
    /\ rows' \in Partitions
    /\ ledger' = {[tablename |-> QueryName, submission_dates |-> <<"d1">>]}
    /\ UNCHANGED <<jobs, nextid, writerVars, va, vb, vc, res, qdims, qout, hin, hout, scalarVars>>

\* select * from get_buildid_metric(channel, version, buildid, dimensions)
QueryMetric ==
    /\ tables # {}
    /\ qout = <<>>
    /\ \E dims \in QueryPredicates :
          /\ qdims' = dims
          /\ qout' = << GetBuildidMetric(tables, rows, QueryName, dims) >>
    /\ UNCHANGED <<jobs, storeVars, nextid, writerVars, va, vb, vc, res, hin, hout, scalarVars>>

NextQuery == LoadPartition \/ QueryMetric

SpecQuery == InitQuery /\ [][NextQuery]_vars

\* The rows of the partition read whose dimensions hold every member asked for.
Matching == {r \in rows : r.tab = QueryName /\
                          \A k \in DOMAIN qdims : r.dimensions[k] = qdims[k]}
MatchingLabels == {r.dimensions.label : r \in Matching}
LabelGroup(l) == {r \in Matching : r.dimensions.label = l}

\* C11: for every partition and every dimension predicate with a metric key,
\* get_buildid_metric returns exactly one result row per distinct label among
\* the rows whose dimensions contain the predicate, the row's vector being the
\* positional, zero-padded sum of the values of all matching rows with that
\* label; rows that do not match contribute nothing.
QueryResult ==
    (Len(qout) > 0 /\ "metric" \in DOMAIN qdims) =>
        /\ qout[1].ok
        /\ Cardinality(qout[1].val) = Cardinality(MatchingLabels)
        /\ qout[1].val = {[label |-> l, histogram |-> SumAll(HistogramsOf(LabelGroup(l)))] :
                             l \in MatchingLabels}

\* C11, witness: a read with a metric key returned two labels, one of them
\* summed over two rows with values of different lengths, while the
\* partition holds a row that does not match.
QueryOverGroups ==
    /\ Len(qout) > 0 /\ "metric" \in DOMAIN qdims
    /\ qout[1].ok /\ Cardinality(qout[1].val) = 2
    /\ \E r1 \in Matching : \E r2 \in Matching :
          /\ r1.dimensions.label = r2.dimensions.label
          /\ Len(r1.histogram) # Len(r2.histogram)
    /\ rows \ Matching # {}

-----------------------------------------------------------------------------
(* Claims about the rows a batch writes *)

\* The dimension set of an item with the label as the batch supplies it.
SuppliedDimensions(it) == [Dimensions(it) EXCEPT !.label = it.m.label]

\* The items of a batch whose histogram expands.
Resolvable(bt) ==
    SelectSeq(Items(bt.aggs), LAMBDA it : CompleteWithCount(bt.channel, it).exc = "")

\* Writer w commits in this step into a partition that held no row.
FirstWrite(w) ==
    /\ pc[w] # "committed" /\ pc'[w] = "committed"
    /\ {r \in rows : r.tab = Name(w)} = {}

\* C12: a batch merged into an empty partition leaves, for each resolvable
\* metric ((name, label, is_child), {histogram, count}), exactly one row whose
\* dimension set is the key dimensions plus metric = name, label = label,
\* child = is_child and whose value is the expanded histogram with the count
\* appended; a run of the same batch after that leaves the rows unchanged.
FirstWriteRowShape ==
    [][\A w \in Writers :
          /\ FirstWrite(w) =>
                \A i \in 1..Len(Resolvable(Batch(w))) :
                    LET it == Resolvable(Batch(w))[i]
                        written == RowsWith(rows', Name(w), SuppliedDimensions(it))
                    IN  /\ Cardinality(written) = 1
                        /\ \A r \in written :
                              r.histogram = CompleteWithCount(Batch(w).channel, it).val
          /\ (LeavesCheck(w) /\ BagIn(Batch(w), merges)) => rows' = rows]_vars

-----------------------------------------------------------------------------
(* _get_complete_histogram over channels, metrics and payloads *)

\* The channels of the map, one it does not hold, and the empty name.
Channels == {Nightly, Aurora, Beta, Release, <<"e">>, <<>>}

\* Payloads: value lists of a SIMPLE_ metric, compact histograms otherwise.
SimpleValues == UNION {[1..n -> {"0", "1", "nan"}] : n \in 0..MaxLen}
CompactValues == {<<>>, << <<1, "1">> >>, << <<2, "1">> >>, << <<1, "2">>, <<3, "1">> >>}

InitExpand ==
    /\ jobs = {}
    /\ InitStore
    /\ va = <<>>
    /\ vb = <<>>
    /\ vc = <<>>
    /\ res = <<>>
    /\ qdims = [metric |-> <<>>]
    /\ qout = <<>>
    /\ hin \in [channel : Channels, metric : {SIMPLE_A}, values : SimpleValues]
              \cup [channel : Channels, metric : {GC, UNKNOWN}, values : CompactValues]
    /\ hout = <<>>
    /\ NoScalars

\* _get_complete_histogram(channel, metric, values)
Expand ==
    /\ hout = <<>>
    /\ hout' = << [revision |-> RevisionUsed(hin.channel, hin.metric),
                   result |-> GetCompleteHistogram(hin.channel, hin.metric, hin.values)] >>
    /\ UNCHANGED <<jobs, storeVars, nextid, writerVars, va, vb, vc, res, qdims, qout, hin, scalarVars>>

NextExpand == Expand

SpecExpand == InitExpand /\ [][NextExpand]_vars

\* C13: the revision locator used to expand a histogram is, for the channels
\* nightly, aurora, beta and release, that channel's tip-of-branch locator of
\* the table, and for every other channel the locator of the nightly channel.
RevisionResolution ==
    (Len(hout) > 0 /\ hout[1].revision # <<>>) =>
        hout[1].revision[1] = IF hin.channel \in DOMAIN revision_map
                              THEN revision_map[hin.channel]
                              ELSE revision_map[Nightly]

-----------------------------------------------------------------------------
(* Several builds: keys with underscores *)

\* Three keys of alphanumerics and underscores: build 7 of version 4 of
\* channel n, of version 4 of channel n_4, and of version 4_4 of channel n.
UnderscoreChannel ==
    BatchOf("d1", <<"n", "_", "4">>, << Metric(SIMPLE_A, <<>>, <<"1">>, 1),
                                       Metric(UNKNOWN, <<>>, <<>>, 1) >>)
UnderscoreVersion ==
    [BatchOf("d2", <<"n">>, << Metric(SIMPLE_A, <<>>, <<"2", "0">>, 1) >>)
        EXCEPT !.version = <<"4", "_", "4">>]
Builds == {Call(Day1), Call(UnderscoreChannel), Call(UnderscoreVersion)}

InitBuilds ==
    /\ jobs = Builds
    /\ InitStore
    /\ NoOperands

SpecBuilds == InitBuilds /\ [][Next]_vars

\* The merge key of a batch.
KeyOf(bt) == <<bt.channel, bt.version, bt.build_id>>

\* C14: two distinct (channel, version, build id) keys of alphanumerics and
\* underscores never resolve to one partition name or one ledger entry: the
\* batches merged under one name, whose rows the partition and whose dates
\* the ledger entry hold, all have the same key.
OnePartitionPerKey ==
    \A b1 \in DOMAIN merges : \A b2 \in DOMAIN merges :
        (SafeKey(b1) /\ SafeKey(b2) /\ NameOf(b1) = NameOf(b2)) => KeyOf(b1) = KeyOf(b2)

-----------------------------------------------------------------------------
(* list_buildids and list_channels *)

Digits == {"0", "1", "2", "3", "4", "5", "6", "7", "8", "9"}

\* The table create_tables makes, a public base table like the partitions.
LedgerTable ==
    <<"b", "u", "i", "l", "d", "i", "d", "_", "u", "p", "d", "a", "t", "e", "_",
      "d", "a", "t", "e", "s">>

\* information_schema.tables where table_schema = 'public' and
\* table_type = 'BASE TABLE'
PublicTables(present) == present \cup {LedgerTable}

\* The match of ([^_]*)_([0-9]*)_([0-9]*) that starts at position s of name,
\* <<>> when there is none: the first group runs up to the next underscore,
\* the second is the digits between that and the underscore after it, the
\* third the longest run of digits that follows.
MatchAt(name, s) ==
    LET under(from) == {i \in from..Len(name) : name[i] = "_"}
        first(from) == CHOOSE i \in under(from) : \A j \in under(from) : i <= j
    IN  IF under(s) = {} THEN <<>>
        ELSE LET u1 == first(s)
             IN  IF under(u1 + 1) = {} THEN <<>>
                 ELSE LET u2 == first(u1 + 1)
                          run == {n \in 0..(Len(name) - u2) :
                                     \A i \in (u2 + 1)..(u2 + n) : name[i] \in Digits}
                          n3 == CHOOSE n \in run : \A o \in run : o <= n
                      IN  IF \E i \in (u1 + 1)..(u2 - 1) : name[i] \notin Digits THEN <<>>
                          ELSE << SubSeq(name, s, u1 - 1),
                                  SubSeq(name, u1 + 1, u2 - 1),
                                  SubSeq(name, u2 + 1, u2 + n3) >>

\* regexp_matches(name, '([^_]*)_([0-9]*)_([0-9]*)'): the groups of the
\* leftmost match, <<>> (no row) when the name has no match.
regexp_matches(name) ==
    LET starts == {s \in 1..(Len(name) + 1) : MatchAt(name, s) # <<>>}
    IN  IF starts = {} THEN <<>>
        ELSE MatchAt(name, CHOOSE s \in starts : \A o \in starts : s <= o)

\* table_name like '<channel>%': an underscore of the pattern stands for any
\* one character.
Like(name, channel) ==
    /\ Len(name) >= Len(channel)
    /\ \A i \in 1..Len(channel) : channel[i] = "_" \/ channel[i] = name[i]

\* list_buildids(channel): the (version, buildid) rows returned.
list_buildids(present, channel) ==
    {<<regexp_matches(t)[2], regexp_matches(t)[3]>> :
        t \in {n \in PublicTables(present) : Like(n, channel) /\ regexp_matches(n) # <<>>}}

\* list_channels(): the channel rows returned.
list_channels(present) ==
    {regexp_matches(t)[1] : t \in {n \in PublicTables(present) : regexp_matches(n) # <<>>}}

\* Two channels, the name of one beginning with the name of the other, and a
\* batch that leaves no partition behind.
PrefixChannel ==
    [BatchOf("d1", <<"n", "a">>, << Metric(SIMPLE_A, <<>>, <<"1">>, 1),
                                   Metric(UNKNOWN, <<>>, <<>>, 1) >>)
        EXCEPT !.build_id = <<"8">>]
ChannelBuilds == {Call(Day1), Call(PrefixChannel), Call(Day3)}

InitChannels ==
    /\ jobs = ChannelBuilds
    /\ InitStore
    /\ NoOperands

SpecChannels == InitChannels /\ [][Next]_vars

\* The committed batches whose partition exists.
Partitioned == {b \in DOMAIN merges : NameOf(b) \in tables}

-----------------------------------------------------------------------------
(* Scalar: probe resolution and the typed merge *)

\* An argument that is not supplied.
None == <<>>

UintName == "telemetry.test.unsigned_int_kind"
StringName == "telemetry.test.string_kind"
BooleanName == "telemetry.test.boolean_kind"

\* The registry: the kind of each scalar probe.
ScalarDefinitions ==
    [n \in {UintName, StringName, BooleanName} |->
        CASE n = UintName -> "uint" [] n = StringName -> "string" [] n = BooleanName -> "boolean"]

\* The values a scalar of a kind carries.
ValuesOf(kind) ==
    CASE kind = "uint" -> 0..MaxVal
      [] kind = "string" -> {<<>>, <<"s">>}
      [] kind = "boolean" -> BOOLEAN

ScalarsUrl ==
    <<"https://hg.mozilla.org/releases/mozilla-release/raw-file/tip/toolkit/components/telemetry/Scalars.yaml">>

\* Faulty variant of Conflicting: no combination of sources is refused.
ConflictingNever(channel, revision) == FALSE

\* Both a channel and a revision are supplied.
Conflicting(channel, revision) == channel # None /\ revision # None

\* The source a definition is fetched from: the registry URL if one is
\* given, else the revision given, else the locator of the channel, the
\* nightly locator for no channel or one the table does not hold.
ResolvedSource(channel, revision, url) ==
    IF url # None THEN url
    ELSE IF revision # None THEN revision
    ELSE IF channel \in DOMAIN revision_map THEN revision_map[channel]
    ELSE revision_map[Nightly]

\* resolve(metric_name, channel, revision, url) with the cache c and n
\* fetches made so far: a conflicting request fails before anything else; a
\* definition in the cache is returned without a fetch; any other is fetched
\* and put into the cache.
Resolve(c, n, name, channel, revision, url) ==
    LET key == <<name, ResolvedSource(channel, revision, url)>>
    IN  IF Conflicting(channel, revision)
        THEN [exc |-> "ConflictingSource", kind |-> "", cache |-> c, fetches |-> n]
        ELSE IF key \in c
        THEN [exc |-> "", kind |-> ScalarDefinitions[name], cache |-> c, fetches |-> n]
        ELSE [exc |-> "", kind |-> ScalarDefinitions[name],
              cache |-> c \cup {key}, fetches |-> n + 1]

\* Faulty variant of Mergeable: no kind is merged.
MergeableNone(kind) == FALSE

\* The kinds of scalars that merge.
Mergeable(kind) == kind = "uint"

\* merge(kind, a, b): the sum of two values of a numeric kind.
Merge(kind, a, b) ==
    IF Mergeable(kind) THEN [exc |-> "", out |-> <<a + b>>]
    ELSE [exc |-> "NotMergeable", out |-> <<>>]

InitScalar ==
    /\ jobs = {}
    /\ InitStore
    /\ NoOperands

\* Scalar(name, value, channel, revision, scalars_url)
NewScalar ==
    \E name \in DOMAIN ScalarDefinitions : \E value \in ValuesOf(ScalarDefinitions[name]) :
    \E channel \in {None, Nightly, Release, <<"e">>} :
    \E revision \in {None, revision_map[Release]} :
    \E url \in {None, ScalarsUrl} :
        LET r == Resolve(cache, fetches, name, channel, revision, url)
        IN  /\ cache' = r.cache
            /\ fetches' = r.fetches
            /\ sres' = [op |-> "new", name |-> name, channel |-> channel,
                        revision |-> revision, url |-> url, exc |-> r.exc,
                        out |-> IF r.exc = "" THEN <<value>> ELSE <<>>]
            /\ UNCHANGED <<jobs, storeVars, nextid, writerVars,
                           va, vb, vc, res, qdims, qout, hin, hout>>

\* Scalar(name, a) + Scalar(name, b)
AddScalars ==
    \E name \in DOMAIN ScalarDefinitions :
    \E a \in ValuesOf(ScalarDefinitions[name]) : \E b \in ValuesOf(ScalarDefinitions[name]) :
        LET left == Resolve(cache, fetches, name, None, None, None)
            right == Resolve(left.cache, left.fetches, name, None, None, None)
            sum == Merge(right.kind, a, b)
        IN  /\ cache' = right.cache
            /\ fetches' = right.fetches
            /\ sres' = [op |-> "add", name |-> name, kind |-> right.kind,
                        left |-> <<a>>, right |-> <<b>>, exc |-> sum.exc, out |-> sum.out]
            /\ UNCHANGED <<jobs, storeVars, nextid, writerVars,
                           va, vb, vc, res, qdims, qout, hin, hout>>

NextScalar == NewScalar \/ AddScalars

SpecScalar == InitScalar /\ [][NextScalar]_vars

\* C16: adding two scalars of kind string, or two of kind boolean, always
\* fails with NotMergeable and yields no merged value, while adding two
\* scalars of the unsigned-integer kind succeeds with their sum.
NonNumericNeverMerged ==
    sres.op = "add" =>
        /\ sres.kind \in {"string", "boolean"} =>
              sres.exc = "NotMergeable" /\ sres.out = <<>>
        /\ sres.kind = "uint" =>
              sres.exc = "" /\ sres.out = <<sres.left[1] + sres.right[1]>>

\* C16, witness: an addition of two strings has been refused.
StringAdditionRefused ==
    sres.op = "add" /\ sres.kind = "string" /\ sres.exc = "NotMergeable"

\* The number of sources a request supplies.
Supplies(r) ==
    (IF r.channel # None THEN 1 ELSE 0) + (IF r.revision # None THEN 1 ELSE 0)
        + (IF r.url # None THEN 1 ELSE 0)

\* C17: resolving a metric with both a channel and a revision supplied fails
\* with ConflictingSource, with no fetch made and nothing put into the
\* definition cache; with only a channel, only a revision or only a registry
\* URL supplied it succeeds.
ConflictingSourceRefused ==
    [][sres'.op = "new" /\ sres' # sres =>
          /\ (sres'.channel # None /\ sres'.revision # None) =>
                /\ sres'.exc = "ConflictingSource"
                /\ fetches' = fetches
                /\ cache' = cache
          /\ Supplies(sres') = 1 => sres'.exc = "" /\ sres'.out # <<>>]_vars

\* C17, witness: a request with the channel nightly and the revision of the
\* release branch has been refused.
ChannelAndRevisionRefused ==
    /\ sres.op = "new" /\ sres.channel = Nightly /\ sres.revision = revision_map[Release]
    /\ sres.exc = "ConflictingSource"

-----------------------------------------------------------------------------
(* Claims about the ledger and the partitions *)

\* C18: in every committed state reached by batches that are no dry runs,
\* every partition that exists, and every aggregate row, has a ledger entry
\* under the partition's name that holds at least one submission date.
RowsImplyLedger ==
    /\ \A t \in tables :
          \E l \in ledger : l.tablename = t /\ Len(l.submission_dates) >= 1
    /\ \A r \in rows :
          /\ r.tab \in tables
          /\ \E l \in ledger : l.tablename = r.tab /\ Len(l.submission_dates) >= 1

\* C18, witness: a partition with a row exists after a commit, the ledger
\* holding two dates under its name.
PartitionLedgered ==
    \E r \in rows : \E l \in ledger :
        r.tab \in tables /\ l.tablename = r.tab /\ Len(l.submission_dates) = 2

-----------------------------------------------------------------------------
(* Dry runs *)

DryCall(bt) == [batch |-> bt, dry_run |-> TRUE]

\* The second day of the build as a dry run and in earnest, after or before
\* the first day.
DryRuns == {DryCall(Day2), Call(Day2), Call(Day1)}

InitDry ==
    /\ jobs = DryRuns
    /\ InitStore
    /\ NoOperands

SpecDry == InitDry /\ [][Next]_vars

\* Writer w takes a step.
Steps(w) == pc'[w] # pc[w] \/ idx'[w] # idx[w] \/ pend'[w] # pend[w]

\* The committed value of a dimension set of a partition, <<>> if it has no row.
Committed(rs, name, dims) == HistogramsOf(RowsWith(rs, name, dims))

\* C19: a dry run ends in a rollback and leaves the store as it was: no
\* step of it changes the ledger, the partitions or the rows. A later run of
\* the same batch that is no dry run is not reported as already processed
\* (only a committed run makes a batch processed) and is merged in full: at
\* its commit every dimension set of the batch holds its former value plus
\* what the batch supplies.
DryRunLeavesStore ==
    [][\A w \in Writers :
          /\ (job[w].dry_run /\ Steps(w)) =>
                /\ UNCHANGED <<ledger, tables, rows>>
                /\ pc'[w] # "committed"
          /\ (pc[w] = "check" /\ pc'[w] = "already") => BagIn(Batch(w), merges)
          /\ (pc[w] # "committed" /\ pc'[w] = "committed") =>
                /\ DateRecorded(ledger', Name(w), Batch(w).date)
                /\ \A i \in 1..Len(Resolvable(Batch(w))) :
                      LET dims == Dimensions(Resolvable(Batch(w))[i])
                      IN  Committed(rows', Name(w), dims) =
                             << SumAll(Committed(rows, Name(w), dims)
                                       \o Supplied(Batch(w), Name(w), dims)) >>]_vars

\* C19, witness: a dry run of a batch was rolled back after it had gone
\* through all its items, a run in earnest of the same batch is committed
\* and the ledger holds the date once.
DryThenMerged ==
    \E w1 \in Writers : \E w2 \in Writers :
        /\ job[w1].dry_run /\ pc[w1] = "rolledback"
        /\ ~job[w2].dry_run /\ pc[w2] = "committed" /\ Batch(w2) = Batch(w1)
        /\ merges[Batch(w2)] = 1
        /\ \E l \in ledger : l.tablename = Name(w2) /\ l.submission_dates = <<Batch(w2).date>>

-----------------------------------------------------------------------------
(* The frame of a batch *)

\* The dimension sets of a batch, as the batch supplies them.
BatchDimensions(bt) ==
    {SuppliedDimensions(Items(bt.aggs)[i]) : i \in 1..Len(Items(bt.aggs))}

\* The ledger entries and the rows outside the frame of a batch: those of
\* other partition names, and the rows of its partition with a dimension set
\* that is none of the batch.
OutsideLedger(led, bt) == {l \in led : l.tablename # NameOf(bt)}
OutsideRows(rs, bt) ==
    {r \in rs : r.tab # NameOf(bt) \/ r.dimensions \notin BatchDimensions(bt)}

\* C20: a batch changes only the ledger entry of its key's partition name
\* and, in that partition, only the rows whose dimension set is a dimension
\* set of the batch; the ledger entries and rows of every other partition
\* and every other row of the same partition are unchanged.
FrameAcrossPartitions ==
    [][/\ ~SomeCommit => UNCHANGED <<ledger, tables, rows>>
       /\ \A w \in Writers :
             (pc[w] # "committed" /\ pc'[w] = "committed") =>
                /\ OutsideLedger(ledger', Batch(w)) = OutsideLedger(ledger, Batch(w))
                /\ tables' \ {Name(w)} = tables \ {Name(w)}
                /\ OutsideRows(rows', Batch(w)) = OutsideRows(rows, Batch(w))]_vars

====
